---- MODULE Spec2Model ----
(***************************************************************************)
(* The PreToolUse approval gate, crates/executors/src/executors/hooks/     *)
(* confirm.py: one run of main(), from the command line to the exit of the *)
(* process, against a backend that may answer each HTTP call in any way.   *)
(***************************************************************************)
EXTENDS Integers, Sequences, FiniteSets, TLC

\* ------------------------------------------------------------------ bounds
\* Largest --timeout-seconds / --poll-interval value tried on the command line.
MaxTimeout == 5

\* ------------------------------------------------------- program constants
\* urlopen(req, timeout=10): the per-call network timeout, in seconds.
HTTP_TIMEOUT == 10

\* --------------------------------------------------------- Python values
\* Python's None (JSON null), and the marker of a key a dict does not have.
None == "<None>"
Absent == "<absent>"

\* Mutant: only None counts as falsy (a test `is None`).
Truthy_not_none(x) == x # None

\* bool(x) for the values that occur: None and the empty string are falsy.
Truthy(x) == x # None /\ x # ""

\* str(x) as an f-string renders it.
PyStr(x) == IF x = None THEN "None" ELSE x

\* The keys of the dicts the gate reads or builds.
Keys == {"tool_name", "tool_input", "session_id", "id", "status", "reason"}

EmptyDict == [k \in Keys |-> Absent]

\* dict.get(key, default)
Get(d, key, default) == IF d[key] = Absent THEN default ELSE d[key]

\* A response body whose bytes are not valid UTF-8.
BadBytes == "\\xff\\xfe"

\* bytes.decode("utf-8"): raises UnicodeDecodeError on invalid bytes.
Utf8Decode(body) ==
    IF body = BadBytes THEN [exc |-> "UnicodeDecodeError", text |-> ""]
    ELSE [exc |-> "none", text |-> body]

JsonDict(d) == [exc |-> "none", isdict |-> TRUE, d |-> d]
JsonOther == [exc |-> "none", isdict |-> FALSE, d |-> EmptyDict]
JsonFail == [exc |-> "JSONDecodeError", isdict |-> FALSE, d |-> EmptyDict]

\* json.loads on the texts that occur as stdin or as a response body: a JSON
\* object becomes a dict, other JSON another value, anything else raises.
JsonLoads(text) ==
    CASE text = "{}" -> JsonDict(EmptyDict)
      [] text = "{\"tool_name\":\"Bash\",\"tool_input\":\"ls\"}" ->
            JsonDict([EmptyDict EXCEPT !["tool_name"] = "Bash",
                                       !["tool_input"] = "ls"])
      [] text = "{\"tool_name\":\"Bash\",\"tool_input\":\"ls\",\"session_id\":\"s1\"}" ->
            JsonDict([EmptyDict EXCEPT !["tool_name"] = "Bash",
                                       !["tool_input"] = "ls",
                                       !["session_id"] = "s1"])
      [] text = "{\"id\":\"abc\"}" -> JsonDict([EmptyDict EXCEPT !["id"] = "abc"])
      [] text = "{\"id\":\"\"}" -> JsonDict([EmptyDict EXCEPT !["id"] = ""])
      [] text = "{\"id\":null}" -> JsonDict([EmptyDict EXCEPT !["id"] = None])
      [] text = "{\"status\":\"pending\"}" ->
            JsonDict([EmptyDict EXCEPT !["status"] = "pending"])
      [] text = "{\"status\":\"approved\"}" ->
            JsonDict([EmptyDict EXCEPT !["status"] = "approved"])
      [] text = "{\"status\":\"Approved\"}" ->
            JsonDict([EmptyDict EXCEPT !["status"] = "Approved"])
      [] text = "{\"status\":\"timed_out\"}" ->
            JsonDict([EmptyDict EXCEPT !["status"] = "timed_out"])
      [] text = "{\"status\":\"denied\"}" ->
            JsonDict([EmptyDict EXCEPT !["status"] = "denied"])
      [] text = "{\"status\":\"denied\",\"reason\":\"\"}" ->
            JsonDict([EmptyDict EXCEPT !["status"] = "denied", !["reason"] = ""])
      [] text = "{\"status\":\"denied\",\"reason\":\"not now\"}" ->
            JsonDict([EmptyDict EXCEPT !["status"] = "denied",
                                       !["reason"] = "not now"])
      [] text = "[]" -> JsonOther
      [] text = "null" -> JsonOther
      [] OTHER -> JsonFail

\* Mutant: the `or "{}"` dropped, the text handed to json.loads as it is.
OrEmptyObject_dropped(text) == text

\* `x or "{}"`: an empty text is read as the empty object.
OrEmptyObject(text) == IF text = "" THEN "{}" ELSE text

\* ------------------------------------------------------------ the inputs
Markers == {"", "[FB] "}
Ports == {3001, 8080}

ArgValues == (-1)..MaxTimeout

CommandLines ==
    [timeout_seconds : ArgValues, poll_interval : ArgValues,
     backend_port : Ports, feedback_marker : Markers]

StdinPayloads ==
    {"", "  ", "{not json", "[]",
     "{\"tool_name\":\"Bash\",\"tool_input\":\"ls\"}",
     "{\"tool_name\":\"Bash\",\"tool_input\":\"ls\",\"session_id\":\"s1\"}"}

\* What urlopen can do on one call: raise, or hand back a body.
Raised == {"URLError", "HTTPError", "TimeoutError", "RemoteDisconnected"}

Raises(e) == [exc |-> e, body |-> ""]
Answers(b) == [exc |-> "none", body |-> b]

CreateBodies ==
    {"", "<html>", BadBytes, "[]",
     "{\"id\":\"abc\"}", "{\"id\":\"\"}", "{\"id\":null}"}

StatusBodies ==
    {"", "<html>", BadBytes, "[]",
     "{\"status\":\"pending\"}", "{\"status\":\"approved\"}",
     "{\"status\":\"Approved\"}", "{\"status\":\"timed_out\"}",
     "{\"status\":\"denied\"}", "{\"status\":\"denied\",\"reason\":\"\"}",
     "{\"status\":\"denied\",\"reason\":\"not now\"}"}

CreateBehaviours == {Raises(e) : e \in Raised} \cup {Answers(b) : b \in CreateBodies}
StatusBehaviours == {Raises(e) : e \in Raised} \cup {Answers(b) : b \in StatusBodies}

\* How long one HTTP call can take on the clock: at once, half the network
\* timeout, the whole network timeout.
HttpDurations == {0, HTTP_TIMEOUT \div 2, HTTP_TIMEOUT}

\* str(e) of the exceptions the gate reports.
ErrorDetail(e) ==
    CASE e = "URLError" -> "<urlopen error [Errno 111] Connection refused>"
      [] e = "HTTPError" -> "HTTP Error 500: Internal Server Error"
      [] e = "TimeoutError" -> "timed out"
      [] e = "JSONDecodeError" -> "Expecting value: line 1 column 1 (char 0)"
      [] OTHER -> e

VARIABLES
    pc,           \* where main() is: parse_args, read_stdin, create, poll, exited
    args,         \* the command line, then the parsed arguments
    stdin,        \* the text on the input channel
    incoming,     \* the parsed stdin payload
    approval_id,  \* the id the create call returned
    elapsed,      \* the loop's counter of slept seconds
    stdout,       \* the payloads printed on the output channel
    stderr,       \* the lines printed on the diagnostic channel
    exit_status,  \* the process's exit status, -1 while it runs
    trace,        \* the I/O done so far: stdin reads, HTTP calls, sleeps
    now           \* the clock, in seconds since the start of the run

vars == <<pc, args, stdin, incoming, approval_id, elapsed, stdout, stderr,
          exit_status, trace, now>>

\* ------------------------------------------------------ the gate's functions
\* Mutant: the marker prefixed whenever it is set, whatever the reason.
json_error_marker_only(reason, feedback_marker) ==
    [hookEventName |-> "PreToolUse",
     permissionDecision |-> "deny",
     permissionDecisionReason |->
        IF Truthy(feedback_marker)
        THEN feedback_marker \o PyStr(reason)
        ELSE reason,
     suppressOutput |-> Absent]

\* json_error(reason, feedback_marker): the deny payload it prints.
json_error(reason, feedback_marker) ==
    [hookEventName |-> "PreToolUse",
     permissionDecision |-> "deny",
     permissionDecisionReason |->
        IF Truthy(reason) /\ Truthy(feedback_marker)
        THEN feedback_marker \o reason
        ELSE reason,
     suppressOutput |-> Absent]

\* json_success(): the allow payload it prints.
json_success ==
    [hookEventName |-> "PreToolUse",
     permissionDecision |-> "allow",
     permissionDecisionReason |-> Absent,
     suppressOutput |-> "true"]

\* The exceptions the except clauses of http_post_json / http_get_json name;
\* an exception of any other class leaves the function uncaught.
Caught == {"HTTPError", "URLError", "TimeoutError", "JSONDecodeError"}

\* The body of the try block of both helpers: urlopen, read, decode, loads.
\* exc is the exception that left the block, "none" when it returned value.
UrlOpenJson(behaviour) ==
    IF behaviour.exc # "none"
    THEN [exc |-> behaviour.exc, value |-> JsonOther]
    ELSE LET decoded == Utf8Decode(behaviour.body)
             parsed == JsonLoads(OrEmptyObject(decoded.text))
         IN  IF decoded.exc # "none"
             THEN [exc |-> decoded.exc, value |-> JsonOther]
             ELSE [exc |-> parsed.exc, value |-> parsed]

\* http_post_json: the value returned, the deny payload printed (kind
\* "json_error") or the exception that escapes (kind "raise").
http_post_json(behaviour) ==
    LET r == UrlOpenJson(behaviour)
    IN  IF r.exc = "none"
        THEN [kind |-> "return", value |-> r.value, exc |-> "none",
              payload |-> json_success]
        ELSE IF r.exc \in Caught
        THEN [kind |-> "json_error", value |-> JsonOther, exc |-> r.exc,
              payload |-> json_error(
                 "Failed to create approval request. Backend may be unavailable. ("
                    \o ErrorDetail(r.exc) \o ")", None)]
        ELSE [kind |-> "raise", value |-> JsonOther, exc |-> r.exc,
              payload |-> json_success]

\* Mutant: the lost-connection deny is given the feedback marker.
http_get_json_marked(behaviour) ==
    LET r == UrlOpenJson(behaviour)
    IN  IF r.exc = "none"
        THEN [kind |-> "return", value |-> r.value, exc |-> "none",
              payload |-> json_success]
        ELSE IF r.exc \in Caught
        THEN [kind |-> "json_error", value |-> JsonOther, exc |-> r.exc,
              payload |-> json_error(
                 "Lost connection to approval backend: " \o ErrorDetail(r.exc),
                 args.feedback_marker)]
        ELSE [kind |-> "raise", value |-> JsonOther, exc |-> r.exc,
              payload |-> json_success]

\* http_get_json, likewise.
http_get_json(behaviour) ==
    LET r == UrlOpenJson(behaviour)
    IN  IF r.exc = "none"
        THEN [kind |-> "return", value |-> r.value, exc |-> "none",
              payload |-> json_success]
        ELSE IF r.exc \in Caught
        THEN [kind |-> "json_error", value |-> JsonOther, exc |-> r.exc,
              payload |-> json_error(
                 "Lost connection to approval backend: " \o ErrorDetail(r.exc),
                 None)]
        ELSE [kind |-> "raise", value |-> JsonOther, exc |-> r.exc,
              payload |-> json_success]

\* Mutant: the comparison of the poll interval with the timeout left out.
parse_args_error_unordered(a) ==
    IF a.timeout_seconds <= 0
    THEN "--timeout-seconds must be a positive integer"
    ELSE IF a.poll_interval <= 0
    THEN "--poll-interval must be a positive integer"
    ELSE ""

\* The checks of parse_args, in their order: the parser.error message, or ""
\* when the arguments are accepted.
parse_args_error(a) ==
    IF a.timeout_seconds <= 0
    THEN "--timeout-seconds must be a positive integer"
    ELSE IF a.poll_interval <= 0
    THEN "--poll-interval must be a positive integer"
    ELSE IF a.poll_interval > a.timeout_seconds
    THEN "--poll-interval cannot be greater than --timeout-seconds"
    ELSE ""

\* Mutant: the status call goes to a fixed port, not to --backend-port.
status_endpoint_fixed_port(id) ==
    "http://127.0.0.1:3001" \o "/api/approvals/" \o id \o "/status"

\* Mutant: session_id is read without its default.
create_payload_no_default(inc) ==
    [EmptyDict EXCEPT !["tool_name"] = Get(inc, "tool_name", None),
                      !["tool_input"] = Get(inc, "tool_input", None),
                      !["session_id"] = Get(inc, "session_id", None)]

\* url, create_endpoint and the status endpoint of main().
url == "http://127.0.0.1:" \o ToString(args.backend_port)
create_endpoint == url \o "/api/approvals/create"
status_endpoint(id) ==
    url \o "/api/approvals/" \o id \o "/status"

\* create_payload of main().
create_payload(inc) ==
    [EmptyDict EXCEPT !["tool_name"] = Get(inc, "tool_name", None),
                      !["tool_input"] = Get(inc, "tool_input", None),
                      !["session_id"] = Get(inc, "session_id", "unknown")]

\* Mutant: the message states the seconds slept, not the configured timeout.
timed_out_reason_elapsed ==
    "Approval request" \o " timed out after "
        \o ToString(elapsed) \o " seconds"

\* The reason of both timeout denies of main().
timed_out_reason ==
    "Approval request" \o " timed out after "
        \o ToString(args.timeout_seconds) \o " seconds"

\* Mutant: the loop allows one more poll after the budget is used up.
loop_condition_slack == elapsed < args.timeout_seconds + args.poll_interval

\* Mutant: the loop goes on while elapsed <= timeout_seconds.
loop_condition_inclusive == elapsed <= args.timeout_seconds

\* The loop condition of main().
loop_condition == elapsed < args.timeout_seconds

\* Mutant: the counter counts loop iterations, not slept seconds.
elapsed_after_sleep_unit == elapsed + 1

\* elapsed += args.poll_interval: the counter after the sleep.
elapsed_after_sleep == elapsed + args.poll_interval

\* Mutant: a status the chain does not know is taken as pending.
status_branch_default_pending(status) ==
    IF status = "approved" THEN "approved"
    ELSE IF status = "denied" THEN "denied"
    ELSE IF status = "timed_out" THEN "timed_out"
    ELSE "pending"

\* Mutant: the status compared without regard to case.
status_branch_anycase(status) ==
    IF status \in {"approved", "Approved"} THEN "approved"
    ELSE IF status = "denied" THEN "denied"
    ELSE IF status = "timed_out" THEN "timed_out"
    ELSE IF status = "pending" THEN "pending"
    ELSE "unknown"

\* Mutant: the approved branch tests for a status the backend never sends.
status_branch_typo(status) ==
    IF status = "approve" THEN "approved"
    ELSE IF status = "denied" THEN "denied"
    ELSE IF status = "timed_out" THEN "timed_out"
    ELSE IF status = "pending" THEN "pending"
    ELSE "unknown"

\* The branch of the if/elif chain of the loop a status value takes.
status_branch(status) ==
    IF status = "approved" THEN "approved"
    ELSE IF status = "denied" THEN "denied"
    ELSE IF status = "timed_out" THEN "timed_out"
    ELSE IF status = "pending" THEN "pending"
    ELSE "unknown"

\* ------------------------------------------------------------- the trace
Event(op, target, behaviour, req, secs) ==
    [op |-> op, url |-> target, exc |-> behaviour.exc, body |-> behaviour.body,
     req |-> req, secs |-> secs, elapsed |-> elapsed]

NoBehaviour == Raises("none")

\* ------------------------------------------------------------ the run
\* print(json.dumps(payload)); sys.exit(0)
ExitWith(payload) ==
    /\ stdout' = Append(stdout, payload)
    /\ exit_status' = 0
    /\ pc' = "exited"
    /\ UNCHANGED stderr

\* An uncaught exception: the traceback on stderr, exit status 1.
Crash(exc) ==
    /\ stderr' = Append(stderr, "Traceback: " \o exc)
    /\ exit_status' = 1
    /\ pc' = "exited"
    /\ UNCHANGED stdout

Init ==
    /\ pc = "parse_args"
    /\ args \in CommandLines
    /\ stdin \in StdinPayloads
    /\ incoming = EmptyDict
    /\ approval_id = None
    /\ elapsed = 0
    /\ stdout = <<>>
    /\ stderr = <<>>
    /\ exit_status = -1
    /\ trace = <<>>
    /\ now = 0

\* args = parse_args(): parser.error prints the message and exits with 2.
ParseArgs ==
    /\ pc = "parse_args"
    /\ IF parse_args_error(args) # ""
       THEN /\ stderr' = Append(stderr, "error: " \o parse_args_error(args))
            /\ exit_status' = 2
            /\ pc' = "exited"
       ELSE /\ pc' = "read_stdin"
            /\ UNCHANGED <<stderr, exit_status>>
    /\ UNCHANGED <<args, stdin, incoming, approval_id, elapsed, stdout, trace, now>>

\* raw_payload = sys.stdin.read(); incoming = json.loads(raw_payload or "{}"),
\* then the three incoming.get calls that build create_payload.
ReadStdin ==
    /\ pc = "read_stdin"
    /\ trace' = Append(trace, Event("stdin.read", "", NoBehaviour, EmptyDict, 0))
    /\ LET parsed == JsonLoads(OrEmptyObject(stdin))
       IN  IF parsed.exc = "JSONDecodeError"
           THEN /\ ExitWith(json_error("Invalid JSON payload on stdin", None))
                /\ UNCHANGED incoming
           ELSE IF ~parsed.isdict
           THEN /\ Crash("AttributeError")
                /\ UNCHANGED incoming
           ELSE /\ incoming' = parsed.d
                /\ pc' = "create"
                /\ UNCHANGED <<stdout, stderr, exit_status>>
    /\ UNCHANGED <<args, stdin, approval_id, elapsed, now>>

\* response = http_post_json(create_endpoint, create_payload), the check of
\* the id, the diagnostic line, elapsed = 0.
Create ==
    /\ pc = "create"
    /\ \E behaviour \in CreateBehaviours, took \in HttpDurations :
         LET r == http_post_json(behaviour)
             id == Get(r.value.d, "id", None)
         IN  /\ now' = now + took
             /\ trace' = Append(trace, Event("POST", create_endpoint, behaviour,
                                             create_payload(incoming), 0))
             /\ IF r.kind = "json_error"
                THEN ExitWith(r.payload) /\ UNCHANGED <<approval_id, elapsed>>
                ELSE IF r.kind = "raise"
                THEN Crash(r.exc) /\ UNCHANGED <<approval_id, elapsed>>
                ELSE IF ~r.value.isdict
                THEN Crash("AttributeError") /\ UNCHANGED <<approval_id, elapsed>>
                ELSE IF ~Truthy(id)
                THEN /\ ExitWith(json_error("Invalid response from approval backend", None))
                     /\ approval_id' = id
                     /\ UNCHANGED elapsed
                ELSE /\ approval_id' = id
                     /\ stderr' = Append(stderr, "Approval request created: " \o id
                                            \o ". Waiting for user response...")
                     /\ elapsed' = 0
                     /\ pc' = "poll"
                     /\ UNCHANGED <<stdout, exit_status>>
    /\ UNCHANGED <<args, stdin, incoming>>

\* One iteration of the while loop: the status call and the branch it takes.
Poll ==
    /\ pc = "poll"
    /\ loop_condition
    /\ \E behaviour \in StatusBehaviours, took \in HttpDurations :
         LET r == http_get_json(behaviour)
             status == Get(r.value.d, "status", None)
             get == Event("GET", status_endpoint(approval_id), behaviour, EmptyDict, 0)
             branch == status_branch(status)
         IN  IF r.kind = "json_error"
             THEN /\ ExitWith(r.payload)
                  /\ trace' = Append(trace, get)
                  /\ now' = now + took
                  /\ UNCHANGED elapsed
             ELSE IF r.kind = "raise"
             THEN /\ Crash(r.exc)
                  /\ trace' = Append(trace, get)
                  /\ now' = now + took
                  /\ UNCHANGED elapsed
             ELSE IF ~r.value.isdict
             THEN /\ Crash("AttributeError")
                  /\ trace' = Append(trace, get)
                  /\ now' = now + took
                  /\ UNCHANGED elapsed
             ELSE IF branch = "pending"
             THEN \* time.sleep(args.poll_interval); elapsed += args.poll_interval
                  /\ trace' = trace \o <<get, Event("sleep", "", NoBehaviour, EmptyDict,
                                                    args.poll_interval)>>
                  /\ now' = now + took + args.poll_interval
                  /\ elapsed' = elapsed_after_sleep
                  /\ UNCHANGED <<pc, stdout, stderr, exit_status>>
             ELSE /\ trace' = Append(trace, get)
                  /\ now' = now + took
                  /\ UNCHANGED elapsed
                  /\ ExitWith(
                       CASE branch = "approved" -> json_success
                         [] branch = "denied" ->
                              json_error(Get(r.value.d, "reason", None),
                                         args.feedback_marker)
                         [] branch = "timed_out" -> json_error(timed_out_reason, None)
                         [] OTHER ->
                              json_error("Unknown approval status: " \o PyStr(status),
                                         None))
    /\ UNCHANGED <<args, stdin, incoming, approval_id>>

\* The loop ends with the budget used up: the timeout deny after the loop.
LoopExit ==
    /\ pc = "poll"
    /\ ~loop_condition
    /\ ExitWith(json_error(timed_out_reason, None))
    /\ UNCHANGED <<args, stdin, incoming, approval_id, elapsed, trace, now>>

Next == ParseArgs \/ ReadStdin \/ Create \/ Poll \/ LoopExit

Spec == Init /\ [][Next]_vars

\* Every step of main() returns: urlopen is bounded by its timeout, the sleep
\* ends, and a sequential process that can take a step takes it.
FairSpec == Spec /\ WF_vars(Next)

\* ------------------------------------------------------------ the claims
\* The configuration passes the three checks of the claim's GateConfig.
ConfigValid ==
    /\ args.timeout_seconds > 0
    /\ args.poll_interval > 0
    /\ args.poll_interval <= args.timeout_seconds

Posts == {i \in DOMAIN trace : trace[i].op = "POST"}
Gets == {i \in DOMAIN trace : trace[i].op = "GET"}
Sleeps == {i \in DOMAIN trace : trace[i].op = "sleep"}
StdinReads == {i \in DOMAIN trace : trace[i].op = "stdin.read"}

\* The backend answered call i with this body.
Answered(i, body) == trace[i].exc = "none" /\ trace[i].body = body

PendingBody == "{\"status\":\"pending\"}"
ApprovedBody == "{\"status\":\"approved\"}"
TimedOutBody == "{\"status\":\"timed_out\"}"
CreatedBody == "{\"id\":\"abc\"}"

\* Every status call of the run so far was answered pending.
AllPending == Gets # {} /\ \A i \in Gets : Answered(i, PendingBody)

\* The output channel holds exactly one Deny with this reason.
DeniedWith(reason) ==
    /\ Len(stdout) = 1
    /\ stdout[1].permissionDecision = "deny"
    /\ stdout[1].permissionDecisionReason = reason

\* The output channel holds exactly one Allow, with the suppress-output flag.
Allowed ==
    /\ Len(stdout) = 1
    /\ stdout[1].permissionDecision = "allow"
    /\ stdout[1].suppressOutput = "true"

TimeoutText ==
    "Approval request timed out after " \o ToString(args.timeout_seconds)
        \o " seconds"

\* C1: every run whose configuration is valid ends with exactly one Decision
\* on the output channel and exit status 0, whatever stdin holds and whatever
\* the backend does.
C1_OneDecisionExitZero ==
    (pc = "exited" /\ ConfigValid) => (Len(stdout) = 1 /\ exit_status = 0)

\* C2: fail-closed: an Allow is on the output channel only if the last thing
\* the run did was a status call for the created id, made while
\* elapsed < timeout_seconds, that was answered with status exactly "approved".
C2_AllowOnlyIfApproved ==
    \A o \in DOMAIN stdout :
        stdout[o].permissionDecision = "allow" =>
            /\ trace # <<>>
            /\ approval_id = "abc"
            /\ \E c \in Posts : Answered(c, CreatedBody)
            /\ LET last == Len(trace)
               IN  /\ trace[last].op = "GET"
                   /\ trace[last].url =
                        "http://127.0.0.1:" \o ToString(args.backend_port)
                            \o "/api/approvals/abc/status"
                   /\ Answered(last, ApprovedBody)
                   /\ trace[last].elapsed < args.timeout_seconds
            /\ Len(stdout) = 1

\* C2 witness: an Allow written after at least one pending answer.
C2_AllowAfterPending ==
    /\ pc = "exited"
    /\ Allowed
    /\ Sleeps # {}

\* C3: a non-empty stdin that is not JSON ends the run with the Deny
\* "Invalid JSON payload on stdin", no backend call and exit status 0; an
\* empty stdin is read as the empty object and the run goes on to the create
\* call.
C3_MalformedStdinDenied ==
    /\ (StdinReads # {} /\ stdin \in {"  ", "{not json"}) =>
          /\ pc = "exited"
          /\ DeniedWith("Invalid JSON payload on stdin")
          /\ exit_status = 0
          /\ Posts = {} /\ Gets = {}
    /\ (StdinReads # {} /\ stdin = "") =>
          /\ incoming = [k \in Keys |-> Absent]
          /\ (pc = "create" \/ Posts # {})

\* C3 witness: the malformed payload was read and the run has ended.
C3_MalformedStdinRead ==
    /\ StdinReads # {}
    /\ stdin = "{not json"
    /\ pc = "exited"

\* C4: an invalid configuration ends the run in parse_args with the argument
\* error (exit status 2), nothing on the output channel, stdin unread and no
\* backend call; a valid one is never rejected, and with
\* poll_interval = timeout_seconds the run makes at most one status call.
C4_ConfigCheckedFirst ==
    /\ (~ConfigValid /\ pc # "parse_args") =>
          /\ pc = "exited"
          /\ exit_status = 2
          /\ Len(stderr) = 1
          /\ stdout = <<>>
          /\ trace = <<>>
    /\ ConfigValid => exit_status # 2
    /\ (ConfigValid /\ args.poll_interval = args.timeout_seconds) =>
          Cardinality(Gets) <= 1

\* C4 witness: a poll interval above a positive timeout was rejected.
C4_IntervalAboveTimeoutRejected ==
    /\ args.timeout_seconds > 0
    /\ args.poll_interval > args.timeout_seconds
    /\ exit_status = 2

\* A sleep of poll_interval follows every status call that was answered
\* pending, and nothing else sleeps: between two status calls lies one sleep.
SleepAfterEachPending ==
    /\ \A i \in Gets : Answered(i, PendingBody) =>
          /\ i + 1 \in Sleeps
          /\ trace[i + 1].secs = args.poll_interval
    /\ \A i \in Sleeps : i - 1 \in Gets /\ Answered(i - 1, PendingBody)

\* C5 as stated: against a backend that always answers pending the run makes
\* floor(timeout_seconds / poll_interval) status calls, one sleep apart, and
\* ends with the timeout Deny naming timeout_seconds.
C5_FloorPolls ==
    (pc = "exited" /\ AllPending) =>
        /\ Cardinality(Gets) = args.timeout_seconds \div args.poll_interval
        /\ SleepAfterEachPending
        /\ DeniedWith(TimeoutText)

\* C5 amended: the number of status calls is ceil(timeout_seconds /
\* poll_interval), each followed by one sleep of poll_interval, and the run
\* ends with the timeout Deny naming timeout_seconds.
C5_CeilPolls ==
    (pc = "exited" /\ AllPending) =>
        /\ Cardinality(Gets) =
              (args.timeout_seconds + args.poll_interval - 1) \div args.poll_interval
        /\ Cardinality(Sleeps) = Cardinality(Gets)
        /\ SleepAfterEachPending
        /\ DeniedWith(TimeoutText)
        /\ exit_status = 0

\* C5 witness: an always-pending run has ended under a poll interval that
\* does not divide the timeout.
C5_PendingRunEndedUneven ==
    /\ pc = "exited"
    /\ AllPending
    /\ args.timeout_seconds % args.poll_interval # 0

\* C6: with every HTTP call taking at most the network timeout and every
\* sleep exactly poll_interval, the Decision is written no later than
\* timeout_seconds plus one network timeout after the start of the run.
C6_WallClockBound ==
    (pc = "exited" /\ Len(stdout) = 1) =>
        now <= args.timeout_seconds + HTTP_TIMEOUT

\* The first status call of the run.
FirstGet == CHOOSE i \in Gets : \A j \in Gets : i <= j

\* C7: when the first status call is answered approved, the run has ended
\* with exactly one Allow (with the suppress-output flag) and exit status 0,
\* after one create call and one status call, with no sleep and elapsed = 0.
C7_FirstApprovedAllows ==
    (Gets # {} /\ Answered(FirstGet, ApprovedBody)) =>
        /\ pc = "exited"
        /\ Allowed
        /\ exit_status = 0
        /\ Cardinality(Posts) = 1
        /\ Cardinality(Gets) = 1
        /\ FirstGet = Len(trace)
        /\ Sleeps = {}
        /\ elapsed = 0
        /\ elapsed < args.timeout_seconds

\* C7 witness: the first status call was answered approved.
C7_FirstStatusApproved ==
    /\ Gets # {}
    /\ Answered(FirstGet, ApprovedBody)
    /\ stdin = "{\"tool_name\":\"Bash\",\"tool_input\":\"ls\",\"session_id\":\"s1\"}"

DeniedNoReason == "{\"status\":\"denied\"}"
DeniedEmptyReason == "{\"status\":\"denied\",\"reason\":\"\"}"
DeniedNotNow == "{\"status\":\"denied\",\"reason\":\"not now\"}"

\* The reason R a denied answer carries: None when the field is absent.
ReasonIn(body) ==
    CASE body = DeniedNoReason -> None
      [] body = DeniedEmptyReason -> ""
      [] body = DeniedNotNow -> "not now"

\* The marker M before R when both are non-empty, R unchanged otherwise.
Marked(M, R) == IF R \notin {None, ""} /\ M # "" THEN M \o R ELSE R

\* C8: a status call answered denied with reason R is the last thing the run
\* does: it ends with one Deny whose reason is the marker followed by R when
\* both are non-empty and R unchanged otherwise; with timeout 5, interval 5,
\* marker "[FB] " and a first answer denied/"not now" the reason is
\* "[FB] not now" after a single poll.
C8_DeniedReasonMarked ==
    /\ \A i \in Gets :
          (trace[i].exc = "none"
             /\ trace[i].body \in {DeniedNoReason, DeniedEmptyReason, DeniedNotNow}) =>
              /\ i = Len(trace)
              /\ pc = "exited"
              /\ DeniedWith(Marked(args.feedback_marker, ReasonIn(trace[i].body)))
              /\ exit_status = 0
    /\ (/\ args.timeout_seconds = 5
        /\ args.poll_interval = 5
        /\ args.feedback_marker = "[FB] "
        /\ Gets # {}
        /\ Answered(FirstGet, DeniedNotNow)) =>
              /\ DeniedWith("[FB] not now")
              /\ Cardinality(Gets) = 1
              /\ exit_status = 0

\* C8 witness: the end-to-end example: timeout 5, interval 5, marker "[FB] ",
\* first status answer denied with reason "not now".
C8_ExampleDenied ==
    /\ args.timeout_seconds = 5
    /\ args.poll_interval = 5
    /\ args.feedback_marker = "[FB] "
    /\ Gets # {}
    /\ Answered(FirstGet, DeniedNotNow)

\* C9: a status call answered timed_out and the loop running out of budget
\* end the run with the same single Deny, whose reason names the configured
\* timeout_seconds, also when timed_out arrives on the last poll of the budget.
C9_TimeoutDeniesIdentical ==
    /\ \A i \in Gets :
          Answered(i, TimedOutBody) =>
              /\ i = Len(trace)
              /\ pc = "exited"
              /\ DeniedWith(TimeoutText)
              /\ exit_status = 0
    /\ (pc = "exited" /\ AllPending) =>
              /\ elapsed >= args.timeout_seconds
              /\ DeniedWith(TimeoutText)
              /\ exit_status = 0

\* C9 witness: the backend reported timed_out on the poll after which the
\* budget would have run out, pending answers before it.
C9_TimedOutOnLastPoll ==
    /\ pc = "exited"
    /\ trace # <<>>
    /\ Len(trace) \in Gets
    /\ Answered(Len(trace), TimedOutBody)
    /\ trace[Len(trace)].elapsed > 0
    /\ trace[Len(trace)].elapsed + args.poll_interval >= args.timeout_seconds

\* The create call i failed: a network failure, an HTTP error status, or a
\* response body that is not JSON text.
CreateFailed(i) ==
    \/ trace[i].exc \in {"URLError", "TimeoutError", "RemoteDisconnected", "HTTPError"}
    \/ trace[i].exc = "none" /\ trace[i].body \in {"<html>", BadBytes}

CreateFailureReasons ==
    {"Failed to create approval request. Backend may be unavailable. (" \o d \o ")" :
        d \in {"<urlopen error [Errno 111] Connection refused>",
               "HTTP Error 500: Internal Server Error",
               "timed out",
               "Expecting value: line 1 column 1 (char 0)",
               "Remote end closed connection without response",
               "'utf-8' codec can't decode byte 0xff in position 0: invalid start byte"}}

\* C10: a create call that fails ends the run with one Deny that says the
\* request could not be created and carries the error detail, after that one
\* create call and no status call.
C10_CreateFailureDenied ==
    \A i \in Posts :
        CreateFailed(i) =>
            /\ pc = "exited"
            /\ Len(stdout) = 1
            /\ stdout[1].permissionDecision = "deny"
            /\ stdout[1].permissionDecisionReason \in CreateFailureReasons
            /\ exit_status = 0
            /\ Cardinality(Posts) = 1
            /\ Gets = {}

\* The create answers that are a JSON object with no id, an empty id or a
\* null id (an empty body is read as the empty object).
NoIdBodies == {"", "{\"id\":\"\"}", "{\"id\":null}"}

\* C11: a create call answered with an object that has no id, an empty id or
\* a null id ends the run with the Deny "Invalid response from approval
\* backend", no status call and no request-created line on the diagnostic
\* channel; a status call is made only after a create call returned a
\* non-empty id.
C11_MissingIdDenied ==
    /\ \A i \in Posts :
          (trace[i].exc = "none" /\ trace[i].body \in NoIdBodies) =>
              /\ pc = "exited"
              /\ DeniedWith("Invalid response from approval backend")
              /\ exit_status = 0
              /\ Gets = {}
              /\ stderr = <<>>
    /\ \A g \in Gets :
          /\ approval_id \notin {None, "", Absent}
          /\ \E c \in Posts : c < g /\ Answered(c, CreatedBody)
          /\ Len(stderr) >= 1
          /\ stderr[1] = "Approval request created: abc. Waiting for user response..."

\* C11 witness: the create call was answered with an empty id.
C11_EmptyIdAnswered ==
    \E i \in Posts : Answered(i, "{\"id\":\"\"}")

\* The status call i failed: a network failure, an HTTP error status, or a
\* response body that is not JSON text.
StatusFailed(i) ==
    \/ trace[i].exc \in {"URLError", "TimeoutError", "RemoteDisconnected", "HTTPError"}
    \/ trace[i].exc = "none" /\ trace[i].body \in {"<html>", BadBytes}

LostConnectionReasons ==
    {"Lost connection to approval backend: " \o d :
        d \in {"<urlopen error [Errno 111] Connection refused>",
               "HTTP Error 500: Internal Server Error",
               "timed out",
               "Expecting value: line 1 column 1 (char 0)",
               "Remote end closed connection without response",
               "'utf-8' codec can't decode byte 0xff in position 0: invalid start byte"}}

\* C12: a status call that fails, after any number of pending answers, is the
\* last thing the run does: one Deny with a "Lost connection to approval
\* backend" reason, exit status 0, no retry, no sleep and no later call.
C12_StatusFailureDenied ==
    \A i \in Gets :
        StatusFailed(i) =>
            /\ i = Len(trace)
            /\ pc = "exited"
            /\ Len(stdout) = 1
            /\ stdout[1].permissionDecision = "deny"
            /\ stdout[1].permissionDecisionReason \in LostConnectionReasons
            /\ exit_status = 0

UnknownStatusBody == "{\"status\":\"Approved\"}"

\* C13: a status answer that is an object with a status outside pending,
\* approved, denied, timed_out, or with no status field, is the last thing
\* the run does: one Deny "Unknown approval status: <status>" (None for a
\* missing field), no sleep after it, no Allow.
C13_UnknownStatusDenied ==
    /\ \A i \in Gets :
          Answered(i, UnknownStatusBody) =>
              /\ i = Len(trace)
              /\ pc = "exited"
              /\ DeniedWith("Unknown approval status: Approved")
              /\ exit_status = 0
    /\ \A i \in Gets :
          Answered(i, "") =>
              /\ i = Len(trace)
              /\ pc = "exited"
              /\ DeniedWith("Unknown approval status: None")
              /\ exit_status = 0

\* C13 witness: an unknown status arrived after a pending answer.
C13_UnknownAfterPending ==
    /\ Sleeps # {}
    /\ Len(trace) \in Gets
    /\ Answered(Len(trace), UnknownStatusBody)

\* The most status calls the budget allows: ceil(timeout_seconds / poll_interval).
MaxPolls ==
    (args.timeout_seconds + args.poll_interval - 1) \div args.poll_interval

\* C14: under a valid configuration, with every HTTP call returning and every
\* sleep ending, the run eventually has its Decision on the output channel,
\* and the number of status calls never exceeds a bound that depends on
\* timeout_seconds and poll_interval alone.
C14_EventuallyDecision ==
    /\ [](ConfigValid => Cardinality(Gets) <= MaxPolls)
    /\ (ConfigValid ~> Len(stdout) = 1)

StdinNoSession == "{\"tool_name\":\"Bash\",\"tool_input\":\"ls\"}"
StdinWithSession == "{\"tool_name\":\"Bash\",\"tool_input\":\"ls\",\"session_id\":\"s1\"}"

\* The create body the claim expects for each JSON-object payload on stdin:
\* null for a missing tool_name or tool_input, "unknown" for a missing
\* session_id.
ExpectedCreateBody ==
    CASE stdin = "" ->
            [tool_name |-> None, tool_input |-> None, session_id |-> "unknown"]
      [] stdin = StdinNoSession ->
            [tool_name |-> "Bash", tool_input |-> "ls", session_id |-> "unknown"]
      [] stdin = StdinWithSession ->
            [tool_name |-> "Bash", tool_input |-> "ls", session_id |-> "s1"]

\* C16: for a JSON-object payload the run goes on to the create call, also
\* when tool_name and tool_input are missing, and the body of the create call
\* carries tool_name and tool_input as given and session_id as given, or
\* "unknown" when the payload has none.
C16_CreateBodyPassThrough ==
    /\ (StdinReads # {} /\ stdin \in {"", StdinNoSession, StdinWithSession}) =>
          (pc = "create" \/ Posts # {})
    /\ \A i \in Posts :
          /\ stdin \in {"", StdinNoSession, StdinWithSession}
          /\ trace[i].url =
                "http://127.0.0.1:" \o ToString(args.backend_port)
                    \o "/api/approvals/create"
          /\ \A k \in {"tool_name", "tool_input", "session_id"} :
                trace[i].req[k] = ExpectedCreateBody[k]
          /\ \A k \in Keys \ {"tool_name", "tool_input", "session_id"} :
                trace[i].req[k] = Absent

\* C16 witness: the create call was made for a payload without session_id.
C16_CreatedWithoutSession ==
    /\ Posts # {}
    /\ stdin = StdinNoSession

\* The status calls before event i that were answered pending.
PendingBefore(i) == {g \in Gets : g < i /\ Answered(g, PendingBody)}

\* C17: elapsed is poll_interval times the number of pending answers seen so
\* far, at every status call and at every other point of the run, and every
\* status call is made with elapsed < timeout_seconds.
C17_ElapsedCountsPending ==
    /\ elapsed = args.poll_interval * Cardinality(PendingBefore(Len(trace) + 1))
    /\ \A g \in Gets :
          /\ trace[g].elapsed = args.poll_interval * Cardinality(PendingBefore(g))
          /\ trace[g].elapsed < args.timeout_seconds
    /\ Gets = {} => elapsed = 0

\* C17 witness: two pending answers were seen under a poll interval above 1.
C17_TwoPendingSeen ==
    /\ args.poll_interval > 1
    /\ Cardinality(PendingBefore(Len(trace) + 1)) = 2

\* The order of the calls made so far: at most one create call, before every
\* status call; every status call goes to the id that create call returned,
\* on 127.0.0.1:<backend_port>; status calls follow each other with exactly
\* one sleep between them.
CallsInOrder ==
    /\ Cardinality(Posts) <= 1
    /\ \A c \in Posts :
          trace[c].url =
              "http://127.0.0.1:" \o ToString(args.backend_port)
                  \o "/api/approvals/create"
    /\ \A g \in Gets :
          /\ \E c \in Posts : c < g /\ Answered(c, CreatedBody)
          /\ trace[g].url =
                "http://127.0.0.1:" \o ToString(args.backend_port)
                    \o "/api/approvals/abc/status"
    /\ \A g, h \in Gets :
          (g < h /\ ~\E m \in Gets : g < m /\ m < h) =>
              /\ h = g + 2
              /\ trace[g + 1].op = "sleep"
    /\ \A i \in Sleeps : i - 1 \in Gets

\* C18: the calls are made in that order in every state of the run, and once
\* the Decision is written no step makes a call, sleeps or writes again.
C18_SequentialCalls ==
    /\ []CallsInOrder
    /\ [][Len(stdout) >= 1 => (trace' = trace /\ stdout' = stdout
                                 /\ stderr' = stderr /\ now' = now)]_vars

\* C18 witness: two status calls were made on port 8080 and the Decision is
\* written.
C18_TwoPollsThenDecision ==
    /\ args.backend_port = 8080
    /\ Cardinality(Gets) = 2
    /\ Len(stdout) = 1

\* The reasons the gate words itself.
OwnReasons ==
    {"Invalid JSON payload on stdin",
     "Invalid response from approval backend",
     "Unknown approval status: Approved",
     "Unknown approval status: None",
     TimeoutText}
      \cup CreateFailureReasons \cup LostConnectionReasons

\* The run ended on a status call answered denied with this body.
EndedOnDenied(body) ==
    /\ trace # <<>>
    /\ Len(trace) \in Gets
    /\ Answered(Len(trace), body)

\* C19: a Deny the gate words itself is written without the marker, whatever
\* the marker is; only the reason of a denied answer that has a non-empty
\* reason is written with the marker in front.
C19_MarkerOnlyOnDenied ==
    \A o \in DOMAIN stdout :
        stdout[o].permissionDecision = "deny" =>
            IF EndedOnDenied(DeniedNotNow)
            THEN stdout[o].permissionDecisionReason = args.feedback_marker \o "not now"
            ELSE IF EndedOnDenied(DeniedNoReason)
            THEN stdout[o].permissionDecisionReason = None
            ELSE IF EndedOnDenied(DeniedEmptyReason)
            THEN stdout[o].permissionDecisionReason = ""
            ELSE stdout[o].permissionDecisionReason \in OwnReasons

\* C19 witness: with the marker "[FB] " set, the run ended with the
\* lost-connection Deny after a refused status call.
C19_LostConnectionWithMarker ==
    /\ args.feedback_marker = "[FB] "
    /\ Len(stdout) = 1
    /\ trace # <<>>
    /\ Len(trace) \in Gets
    /\ trace[Len(trace)].exc = "URLError"

\* The run ended after the loop: its last event is a sleep.
EndedByLoopExit ==
    /\ pc = "exited"
    /\ trace # <<>>
    /\ Len(trace) \in Sleeps

\* C20: the timeout Deny after the loop is written only when every status
\* answer was pending, with timeout_seconds <= elapsed <= timeout_seconds +
\* poll_interval - 1; after the sleep that uses up the budget no status call
\* can be made, only the timeout Deny.
C20_LoopExitAfterFinalSleep ==
    /\ EndedByLoopExit =>
          /\ AllPending
          /\ args.timeout_seconds <= elapsed
          /\ elapsed <= args.timeout_seconds + args.poll_interval - 1
          /\ DeniedWith(TimeoutText)
          /\ exit_status = 0
    /\ (pc = "poll" /\ elapsed >= args.timeout_seconds) =>
          /\ ~ENABLED Poll
          /\ ENABLED LoopExit
    /\ \A g \in Gets : trace[g].elapsed < args.timeout_seconds

\* C20 witness: the loop was left with elapsed above timeout_seconds.
C20_LoopExitOvershoot ==
    /\ EndedByLoopExit
    /\ elapsed > args.timeout_seconds

====
